---- MODULE Spec2Model ----
(***************************************************************************)
(* Model of clients/alpha_vantage/client.py: the StockMarketClient, its    *)
(* request executor (_make_request) with the bounded retry loop, and the   *)
(* seven data operations.  One call is in flight at a time (the client is  *)
(* synchronous); the transport's reply to each HTTP attempt is an input.   *)
(***************************************************************************)
EXTENDS Integers, Sequences, FiniteSets, TLC

(* ------------------------------ bounds --------------------------------- *)
MaxLen == 2            \* longest string argument the caller passes
MaxKeys == 2           \* most fields in a JSON object body
MaxItems == 2          \* most items in a JSON list body / chunks of a JSON string body
MaxRetriesArg == 3     \* largest max_retries the caller configures

(* --------------------------- Python values ----------------------------- *)
\* Caller-supplied argument values: a str, an int or None.
StrVal(s) == [type |-> "str", chars |-> s, num |-> 0]
IntVal(n) == [type |-> "int", chars |-> << >>, num |-> n]
NoneVal == [type |-> "none", chars |-> << >>, num |-> 0]

\* Python truthiness of an argument value (`not x` is ~Truthy(x)).
Truthy(v) ==
    \/ v.type = "str" /\ Len(v.chars) > 0
    \/ v.type = "int" /\ v.num # 0

\* isinstance(v, str)
IsStr(v) == v.type = "str"

Chars == {" ", "a"}
Strings == UNION {[1..n -> Chars] : n \in 0..MaxLen}
ArgValues == {StrVal(s) : s \in Strings} \cup {NoneVal, IntVal(0), IntVal(123)}

\* str.upper()
Upper(s) == [i \in DOMAIN s |-> IF s[i] = "a" THEN "A" ELSE s[i]]

\* str.strip(): drop leading and trailing whitespace
RECURSIVE LStrip(_)
LStrip(s) == IF Len(s) > 0 /\ Head(s) = " " THEN LStrip(Tail(s)) ELSE s
RECURSIVE RStrip(_)
RStrip(s) ==
    IF Len(s) > 0 /\ s[Len(s)] = " " THEN RStrip(SubSeq(s, 1, Len(s) - 1)) ELSE s
StripLeftOnly(s) == LStrip(s)
Strip(s) == RStrip(LStrip(s))

(* ---------------------------- JSON values ------------------------------ *)
\* Field values of an envelope are kept abstract: an empty (falsy)
\* container, or some non-empty payload.
EmptyFields == [k \in {} |-> "{}"]
Tags == {"{}", "{..}"}
TagTruthy(t) == t = "{..}"

Obj(f) == [kind |-> "object", fields |-> f, items |-> << >>]
List(s) == [kind |-> "list", fields |-> EmptyFields, items |-> s]
Text(s) == [kind |-> "string", fields |-> EmptyFields, items |-> s]
Number == [kind |-> "number", fields |-> EmptyFields, items |-> << >>]
Null == [kind |-> "null", fields |-> EmptyFields, items |-> << >>]
NoValue == [kind |-> "none", fields |-> EmptyFields, items |-> << >>]

EmptyMap == Obj(EmptyFields)       \* the literal {}
EmptyList == List(<< >>)           \* the literal []

\* The value stored under a field, as a JSON value of its own.
Nested(t) ==
    IF t = "{}" THEN EmptyMap
    ELSE Obj([k \in {"01. symbol"} |-> "{..}"])

Keys == {"Error Message", "Note", "Global Quote", "Time Series (Daily)",
         "Time Series (5min)", "bestMatches", "Symbol", "markets",
         "top_gainers", "top_losers"}
Items == {"Error Message", "Note", "x"}

\* The two marker fields hold a message text, the others a payload.
MarkerKeys == {"Error Message", "Note"}
FieldValues(k) == IF k \in MarkerKeys THEN {"text"} ELSE Tags
ObjectBodies ==
    {Obj(f) : f \in UNION {{g \in [D -> Tags \cup {"text"}] : \A k \in D : g[k] \in FieldValues(k)} :
                             D \in {K \in SUBSET Keys : Cardinality(K) <= MaxKeys}}}
ItemSeqs == UNION {[1..n -> Items] : n \in 0..MaxItems}
NonObjectBodies ==
    {List(s) : s \in ItemSeqs} \cup {Text(s) : s \in ItemSeqs} \cup {Number, Null}
Bodies == ObjectBodies \cup NonObjectBodies

(* --------------------------- error classes ----------------------------- *)
\* Direct base class of every exception class the client can raise.
ParentFlat(c) ==
    CASE c = "AlphaVantageError" -> "Exception"
      [] c = "InvalidArgsError" -> "AlphaVantageError"
      [] c = "APIError" -> "AlphaVantageError"
      [] c = "RateLimitError" -> "APIError"
      [] c = "ConnectionError" -> "AlphaVantageError"
      [] c = "DataNotFoundError" -> "AlphaVantageError"
      [] OTHER -> "Exception"
Parent(c) ==
    CASE c = "AlphaVantageError" -> "Exception"
      [] c = "InvalidArgsError" -> "AlphaVantageError"
      [] c = "APIError" -> "AlphaVantageError"
      [] c = "RateLimitError" -> "APIError"
      [] c = "ConnectionError" -> "APIError"
      [] c = "DataNotFoundError" -> "AlphaVantageError"
      [] OTHER -> "Exception"       \* TypeError, AttributeError, ValueError


\* issubclass(c, h)
RECURSIVE IsSubclass(_, _)
IsSubclass(c, h) ==
    IF c = h THEN TRUE
    ELSE IF c = "Exception" THEN FALSE
    ELSE IsSubclass(Parent(c), h)

(* ------------------------------ outcomes ------------------------------- *)
\* How a function call ends: it returns a value or raises an exception
\* of some class with a message (a fixed text and an interpolated part).
Return(v) == [status |-> "return", kind |-> "", msg |-> <<"", "">>, value |-> v]
Raise(c, text, detail) ==
    [status |-> "raise", kind |-> c, msg |-> <<text, detail>>, value |-> NoValue]
Pending == [status |-> "none", kind |-> "", msg |-> <<"", "">>, value |-> NoValue]

(* ------------------------- transport replies --------------------------- *)
\* What requests.get / raise_for_status / response.json() do on one attempt.
\*   timeout           requests.exceptions.Timeout
\*   connection_error  requests.exceptions.ConnectionError that is no timeout
\*   http_error        raise_for_status() raises HTTPError
\*   bad_json          response.json() cannot parse the body; `legacy` tells
\*                     whether the installed requests raises a plain
\*                     ValueError (before 2.27) or its own JSONDecodeError,
\*                     a RequestException
\*   body              the body parses to the JSON value `body`
Reply(k) == [kind |-> k, body |-> NoValue, legacy |-> FALSE]
BadJson(l) == [kind |-> "bad_json", body |-> NoValue, legacy |-> l]
BodyReply(b) == [kind |-> "body", body |-> b, legacy |-> FALSE]
Replies ==
    {Reply("timeout"), Reply("connection_error"), Reply("http_error"),
     BadJson(TRUE), BadJson(FALSE)} \cup {BodyReply(b) : b \in Bodies}

(* -------------------------- request executor --------------------------- *)
\* Python's `key in data` for the value response.json() returned: a key
\* test on a dict, a membership test on a list, a substring test on a str
\* (the text is kept as the chunks it is made of).  On a number, a bool or
\* None the operator raises TypeError, for which CanTestIn is FALSE.
CanTestIn(data) == data.kind \in {"object", "list", "string"}
In(key, data) ==
    IF data.kind = "object" THEN key \in DOMAIN data.fields
    ELSE \E i \in DOMAIN data.items : data.items[i] = key

\* Lines 107-119 of _make_request: the checks made on the parsed body.
ClassifyNoteFirst(data) ==
    IF ~CanTestIn(data) THEN Raise("TypeError", "argument is not iterable", "")
    ELSE IF In("Note", data) THEN
        IF data.kind = "object"
        THEN Raise("RateLimitError", "Alpha Vantage Rate Limit: ", data.fields["Note"])
        ELSE Raise("TypeError", "indices must be integers", "")
    ELSE IF In("Error Message", data) THEN
        IF data.kind = "object"
        THEN Raise("APIError", "Alpha Vantage API Error: ", data.fields["Error Message"])
        ELSE Raise("TypeError", "indices must be integers", "")
    ELSE Return(data)
Classify(data) ==
    IF ~CanTestIn(data) THEN Raise("TypeError", "argument is not iterable", "")
    ELSE IF In("Error Message", data) THEN
        IF data.kind = "object"
        THEN Raise("APIError", "Alpha Vantage API Error: ", data.fields["Error Message"])
        ELSE Raise("TypeError", "indices must be integers", "")
    ELSE IF In("Note", data) THEN
        IF data.kind = "object"
        THEN Raise("RateLimitError", "Alpha Vantage Rate Limit: ", data.fields["Note"])
        ELSE Raise("TypeError", "indices must be integers", "")
    ELSE Return(data)

\* One iteration of the retry loop (lines 96-132) with loop index `attempt`
\* (0-based) and the transport's reply; Pending means the loop goes on.
IterationRetryAll(reply, attempt, max_retries) ==
    CASE reply.kind = "timeout" ->
            IF attempt = max_retries - 1
            THEN Raise("ConnectionError", "Request timeout after all retries", "")
            ELSE Pending
      [] reply.kind = "connection_error" ->
            IF attempt = max_retries - 1
            THEN Raise("ConnectionError", "Failed to connect to Alpha Vantage API: ", "e")
            ELSE Pending
      [] reply.kind = "http_error" -> Raise("APIError", "Request failed: ", "e")
      [] reply.kind = "bad_json" ->
            IF reply.legacy THEN Raise("ValueError", "Expecting value", "")
            ELSE Raise("APIError", "Request failed: ", "e")
      [] OTHER -> Classify(reply.body)
IterationNoRetry(reply, attempt, max_retries) ==
    CASE reply.kind = "timeout" ->
            Raise("ConnectionError", "Request timeout after all retries", "")
      [] reply.kind = "connection_error" ->
            Raise("ConnectionError", "Failed to connect to Alpha Vantage API: ", "e")
      [] reply.kind = "http_error" -> Raise("APIError", "Request failed: ", "e")
      [] reply.kind = "bad_json" ->
            IF reply.legacy THEN Raise("ValueError", "Expecting value", "")
            ELSE Raise("APIError", "Request failed: ", "e")
      [] OTHER -> Classify(reply.body)
Iteration(reply, attempt, max_retries) ==
    CASE reply.kind = "timeout" ->
            IF attempt = max_retries - 1
            THEN Raise("ConnectionError", "Request timeout after all retries", "")
            ELSE Pending
      [] reply.kind = "connection_error" ->
            Raise("ConnectionError", "Failed to connect to Alpha Vantage API: ", "e")
      [] reply.kind = "http_error" -> Raise("APIError", "Request failed: ", "e")
      [] reply.kind = "bad_json" ->
            IF reply.legacy THEN Raise("ValueError", "Expecting value", "")
            ELSE Raise("APIError", "Request failed: ", "e")
      [] OTHER -> Classify(reply.body)

(* --------------------------- data operations --------------------------- *)
\* dict.get(key) on the envelope, as a truth value: the field is present
\* and its value is non-empty.
HasData(data, key) == key \in DOMAIN data.fields /\ TagTruthy(data.fields[key])

\* Calling .get()/.keys() on a list or a str raises AttributeError.
NoSuchMethod == Raise("AttributeError", "object has no attribute", "")

\* `not data` and len(data) for what the executor can return.
ChunkLen(c) == IF c = "x" THEN 1 ELSE IF c = "Note" THEN 4 ELSE 13
RECURSIVE TextLen(_)
TextLen(s) == IF s = << >> THEN 0 ELSE ChunkLen(Head(s)) + TextLen(Tail(s))
PyLen(data) ==
    CASE data.kind = "object" -> Cardinality(DOMAIN data.fields)
      [] data.kind = "list" -> Len(data.items)
      [] OTHER -> TextLen(data.items)

\* get_quote, lines 164-171
ExtractQuoteNotFound(data) ==
    IF data.kind # "object" THEN NoSuchMethod
    ELSE IF ~HasData(data, "Global Quote")
         THEN Raise("DataNotFoundError", "No quote data found", "")
    ELSE Return(Nested(data.fields["Global Quote"]))
ExtractQuote(data) ==
    IF data.kind # "object" THEN NoSuchMethod
    ELSE IF ~HasData(data, "Global Quote") THEN Return(EmptyMap)
    ELSE Return(Nested(data.fields["Global Quote"]))

\* get_daily_data, lines 210-215
ExtractDaily(data) ==
    IF data.kind # "object" THEN NoSuchMethod
    ELSE IF ~HasData(data, "Time Series (Daily)") THEN Return(EmptyMap)
    ELSE Return(data)

\* get_intraday_data, lines 260-272.  The loop takes the first key, in the
\* body's key order, that contains 'Time Series'; the order is not part of
\* the body here, so `ts` is any of those keys, or "" when there is none.
TimeSeriesKeys == {"Time Series (Daily)", "Time Series (5min)"}
FirstTimeSeriesKey(data) ==
    IF data.kind = "object" /\ DOMAIN data.fields \cap TimeSeriesKeys # {}
    THEN DOMAIN data.fields \cap TimeSeriesKeys
    ELSE {""}
ExtractIntraday(data, ts) ==
    IF data.kind # "object" THEN NoSuchMethod
    ELSE IF ts = "" \/ ~HasData(data, ts) THEN Return(EmptyMap)
    ELSE Return(data)

\* search_stocks, lines 305-308
ExtractSearch(data) ==
    IF data.kind # "object" THEN NoSuchMethod
    ELSE IF "bestMatches" \in DOMAIN data.fields
         THEN Return(Nested(data.fields["bestMatches"]))
         ELSE Return(EmptyList)

\* get_company_overview, lines 342-347
ExtractOverview(data) ==
    IF PyLen(data) = 0 \/ PyLen(data) <= 1 THEN Return(EmptyMap) ELSE Return(data)

\* get_market_status, lines 372-377
ExtractStatus(data) ==
    IF data.kind # "object" THEN NoSuchMethod
    ELSE IF ~HasData(data, "markets") THEN Return(EmptyMap)
    ELSE Return(data)

\* get_top_gainers_losers, lines 402-407
ExtractMovers(data) ==
    IF data.kind # "object" THEN NoSuchMethod
    ELSE IF ~HasData(data, "top_gainers") /\ ~HasData(data, "top_losers")
         THEN Return(EmptyMap)
    ELSE Return(data)

Ops == {"get_quote", "get_daily_data", "get_intraday_data", "search_stocks",
        "get_company_overview", "get_market_status", "get_top_gainers_losers"}

Extract(o, data, ts) ==
    CASE o = "get_quote" -> ExtractQuote(data)
      [] o = "get_daily_data" -> ExtractDaily(data)
      [] o = "get_intraday_data" -> ExtractIntraday(data, ts)
      [] o = "search_stocks" -> ExtractSearch(data)
      [] o = "get_company_overview" -> ExtractOverview(data)
      [] o = "get_market_status" -> ExtractStatus(data)
      [] OTHER -> ExtractMovers(data)

\* The try/except around _make_request in every operation: an exception
\* raised by the executor (or by the extraction) is logged and re-raised.
FinishReclassify(o, exec, ts) ==
    IF exec.status = "raise"
    THEN Raise("APIError", "Failed to fetch", "")
    ELSE Extract(o, exec.value, ts)
Finish(o, exec, ts) ==
    IF exec.status = "raise" THEN exec ELSE Extract(o, exec.value, ts)

(* ------------------------------- state --------------------------------- *)
VARIABLES
    client,     \* the StockMarketClient: whether __init__ succeeded, its fields
    pc,         \* where the caller is: idle, exec (inside _make_request), done, handled
    op,         \* the operation being called
    args,       \* the arguments as the caller passed them
    params,     \* the request parameters the operation built
    attempt,    \* loop index of the retry loop
    requests,   \* HTTP requests issued by the current call (the mock's call count)
    replies,    \* what the transport answered to each of them, in order
    exec,       \* how _make_request ended
    outcome,    \* how the operation ended
    handler,    \* the exception class the caller's handler names
    caught      \* whether that handler caught the operation's exception

vars == <<client, pc, op, args, params, attempt, requests, replies, exec,
          outcome, handler, caught>>

DefaultMaxRetries == 3

\* key_arg is the api_key argument __init__ was called with.
NoClient == [state |-> "none", key_arg |-> NoneVal, api_key |-> NoneVal,
             max_retries |-> 0, error |-> Pending]
NoArgs == [symbol |-> NoneVal, keywords |-> NoneVal, interval |-> "", outputsize |-> ""]
NoParams == [keys |-> {}, function |-> "", symbol |-> << >>, keywords |-> << >>,
             interval |-> "", outputsize |-> "", apikey |-> << >>]

Init ==
    /\ client = NoClient
    /\ pc = "idle"
    /\ op = ""
    /\ args = NoArgs
    /\ params = NoParams
    /\ attempt = 0
    /\ requests = 0
    /\ replies = << >>
    /\ exec = Pending
    /\ outcome = Pending
    /\ handler = ""
    /\ caught = ""

(* ---------------------------- construction ----------------------------- *)
ApiKeyArgs == {NoneVal, StrVal(<< >>), StrVal(<<"a">>)}
MaxRetriesArgs == {NoneVal} \cup {IntVal(n) : n \in -1..MaxRetriesArg}

\* `max_retries or 3`, line 75
EffectiveMaxRetries(mr) == IF Truthy(mr) THEN mr.num ELSE DefaultMaxRetries

\* StockMarketClient.__init__
ConstructNoneOnly(api_key, max_retries) ==
    /\ client.state = "none"
    /\ IF api_key = NoneVal
       THEN client' = [NoClient EXCEPT !.state = "failed", !.key_arg = api_key,
                          !.error = Raise("InvalidArgsError", "missing api key", "")]
       ELSE client' = [state |-> "ready", key_arg |-> api_key, api_key |-> api_key,
                       max_retries |-> EffectiveMaxRetries(max_retries),
                       error |-> Pending]
    /\ UNCHANGED <<pc, op, args, params, attempt, requests, replies, exec,
                   outcome, handler, caught>>
Construct(api_key, max_retries) ==
    /\ client.state = "none"
    /\ IF ~Truthy(api_key)
       THEN client' = [NoClient EXCEPT !.state = "failed", !.key_arg = api_key,
                          !.error = Raise("InvalidArgsError", "missing api key", "")]
       ELSE client' = [state |-> "ready", key_arg |-> api_key, api_key |-> api_key,
                       max_retries |-> EffectiveMaxRetries(max_retries),
                       error |-> Pending]
    /\ UNCHANGED <<pc, op, args, params, attempt, requests, replies, exec,
                   outcome, handler, caught>>

(* ------------------------------- calls --------------------------------- *)
CanCall == client.state = "ready" /\ pc = "idle"

\* The operation rejected its arguments: nothing was sent.
Reject(o, a, text) ==
    /\ pc' = "done"
    /\ op' = o
    /\ args' = a
    /\ params' = NoParams
    /\ attempt' = 0
    /\ requests' = 0
    /\ replies' = << >>
    /\ exec' = Pending
    /\ outcome' = Raise("InvalidArgsError", text, "")
    /\ handler' = ""
    /\ caught' = ""
    /\ UNCHANGED client

\* The operation built `p` and entered _make_request, which adds the api
\* key (line 94) and starts the retry loop.
Enter(o, a, p) ==
    /\ pc' = "exec"
    /\ op' = o
    /\ args' = a
    /\ params' = [p EXCEPT !.keys = @ \cup {"apikey"}, !.apikey = client.api_key.chars]
    /\ attempt' = 0
    /\ requests' = 0
    /\ replies' = << >>
    /\ exec' = Pending
    /\ outcome' = Pending
    /\ handler' = ""
    /\ caught' = ""
    /\ UNCHANGED client

IntervalArgs == {"5min", "5MIN"}
OutputsizeArgs == {"full", "FULL"}
valid_intervals == {"1min", "5min", "15min", "30min", "60min"}
valid_outputsizes == {"compact", "full"}

\* `not symbol or not isinstance(symbol, str)`
BadStringOnlyFalsy(v) == ~Truthy(v)
BadString(v) == ~Truthy(v) \/ ~IsStr(v)

SymbolMsg == "Symbol must be a non-empty string"

GetQuote(symbol) ==
    /\ CanCall
    /\ LET a == [NoArgs EXCEPT !.symbol = symbol] IN
       IF BadString(symbol) THEN Reject("get_quote", a, SymbolMsg)
       ELSE Enter("get_quote", a,
                  [NoParams EXCEPT !.keys = {"function", "symbol"},
                                   !.function = "GLOBAL_QUOTE",
                                   !.symbol = Strip(Upper(symbol.chars))])

GetDailyData(symbol, outputsize) ==
    /\ CanCall
    /\ LET a == [NoArgs EXCEPT !.symbol = symbol, !.outputsize = outputsize] IN
       IF BadString(symbol) THEN Reject("get_daily_data", a, SymbolMsg)
       ELSE IF outputsize \notin valid_outputsizes
       THEN Reject("get_daily_data", a, "Output size must be 'compact' or 'full'")
       ELSE Enter("get_daily_data", a,
                  [NoParams EXCEPT !.keys = {"function", "symbol", "outputsize"},
                                   !.function = "TIME_SERIES_DAILY",
                                   !.symbol = Strip(Upper(symbol.chars)),
                                   !.outputsize = outputsize])

GetIntradayDataOutputsizeFirst(symbol, interval, outputsize) ==
    /\ CanCall
    /\ LET a == [NoArgs EXCEPT !.symbol = symbol, !.interval = interval,
                               !.outputsize = outputsize] IN
       IF BadString(symbol) THEN Reject("get_intraday_data", a, SymbolMsg)
       ELSE IF outputsize \notin valid_outputsizes
       THEN Reject("get_intraday_data", a, "Output size must be 'compact' or 'full'")
       ELSE IF interval \notin valid_intervals
       THEN Reject("get_intraday_data", a, "Interval must be one of: ")
       ELSE Enter("get_intraday_data", a,
                  [NoParams EXCEPT !.keys = {"function", "symbol", "interval", "outputsize"},
                                   !.function = "TIME_SERIES_INTRADAY",
                                   !.symbol = Strip(Upper(symbol.chars)),
                                   !.interval = interval,
                                   !.outputsize = outputsize])

GetIntradayData(symbol, interval, outputsize) ==
    /\ CanCall
    /\ LET a == [NoArgs EXCEPT !.symbol = symbol, !.interval = interval,
                               !.outputsize = outputsize] IN
       IF BadString(symbol) THEN Reject("get_intraday_data", a, SymbolMsg)
       ELSE IF interval \notin valid_intervals
       THEN Reject("get_intraday_data", a, "Interval must be one of: ")
       ELSE IF outputsize \notin valid_outputsizes
       THEN Reject("get_intraday_data", a, "Output size must be 'compact' or 'full'")
       ELSE Enter("get_intraday_data", a,
                  [NoParams EXCEPT !.keys = {"function", "symbol", "interval", "outputsize"},
                                   !.function = "TIME_SERIES_INTRADAY",
                                   !.symbol = Strip(Upper(symbol.chars)),
                                   !.interval = interval,
                                   !.outputsize = outputsize])

SearchStocks(keywords) ==
    /\ CanCall
    /\ LET a == [NoArgs EXCEPT !.keywords = keywords] IN
       IF BadString(keywords)
       THEN Reject("search_stocks", a, "Keywords must be a non-empty string")
       ELSE Enter("search_stocks", a,
                  [NoParams EXCEPT !.keys = {"function", "keywords"},
                                   !.function = "SYMBOL_SEARCH",
                                   !.keywords = Strip(keywords.chars)])

GetCompanyOverview(symbol) ==
    /\ CanCall
    /\ LET a == [NoArgs EXCEPT !.symbol = symbol] IN
       IF BadString(symbol) THEN Reject("get_company_overview", a, SymbolMsg)
       ELSE Enter("get_company_overview", a,
                  [NoParams EXCEPT !.keys = {"function", "symbol"},
                                   !.function = "OVERVIEW",
                                   !.symbol = Strip(Upper(symbol.chars))])

GetMarketStatus ==
    /\ CanCall
    /\ Enter("get_market_status", NoArgs,
             [NoParams EXCEPT !.keys = {"function"}, !.function = "MARKET_STATUS"])

GetTopGainersLosers ==
    /\ CanCall
    /\ Enter("get_top_gainers_losers", NoArgs,
             [NoParams EXCEPT !.keys = {"function"}, !.function = "TOP_GAINERS_LOSERS"])

(* --------------------------- the retry loop ---------------------------- *)
\* One pass through the loop body of _make_request: one HTTP request and
\* what follows from the transport's reply.  When the executor returns or
\* raises, the operation's own code runs to its end in the same step.
Attempt(reply, ts) ==
    /\ pc = "exec"
    /\ attempt < client.max_retries
    /\ requests' = requests + 1
    /\ replies' = Append(replies, reply)
    /\ LET it == Iteration(reply, attempt, client.max_retries) IN
       IF it = Pending
       THEN /\ attempt' = attempt + 1
            /\ UNCHANGED <<pc, exec, outcome>>
       ELSE /\ exec' = it
            /\ outcome' = Finish(op, it, ts)
            /\ pc' = "done"
            /\ UNCHANGED attempt
    /\ UNCHANGED <<client, op, args, params, handler, caught>>

\* The loop ran out of iterations without returning or raising (line 135).
LoopExit ==
    /\ pc = "exec"
    /\ attempt >= client.max_retries
    /\ exec' = Raise("APIError", "Request failed after all retries", "")
    /\ outcome' = Finish(op, exec', "")
    /\ pc' = "done"
    /\ UNCHANGED <<client, op, args, params, attempt, requests, replies, handler, caught>>

(* ------------------------------ the caller ----------------------------- *)
\* The caller's `except h:` / assertRaises(h) around the call.
TestedHandlers == {"APIError", "RateLimitError", "ConnectionError"}

\* The call raised and the caller's handler for `h` sees the exception.
CallerHandles(h) ==
    /\ pc = "done"
    /\ outcome.status = "raise"
    /\ handler' = h
    /\ caught' = IF IsSubclass(outcome.kind, h) THEN "caught" ELSE "uncaught"
    /\ pc' = "handled"
    /\ UNCHANGED <<client, op, args, params, attempt, requests, replies, exec, outcome>>

\* The call returned: the caller takes the value and goes on; nothing of
\* the call is kept.
CallerReceives ==
    /\ pc = "done"
    /\ outcome.status = "return"
    /\ pc' = "idle"
    /\ op' = ""
    /\ args' = NoArgs
    /\ params' = NoParams
    /\ attempt' = 0
    /\ requests' = 0
    /\ replies' = << >>
    /\ exec' = Pending
    /\ outcome' = Pending
    /\ handler' = ""
    /\ caught' = ""
    /\ UNCHANGED client

\* The caller is done with the failed call; nothing of it is kept (no
\* state is shared across calls).
Proceed ==
    /\ pc = "handled"
    /\ pc' = "idle"
    /\ op' = ""
    /\ args' = NoArgs
    /\ params' = NoParams
    /\ attempt' = 0
    /\ requests' = 0
    /\ replies' = << >>
    /\ exec' = Pending
    /\ outcome' = Pending
    /\ handler' = ""
    /\ caught' = ""
    /\ UNCHANGED client

Next ==
    \/ \E k \in ApiKeyArgs, mr \in MaxRetriesArgs : Construct(k, mr)
    \/ \E s \in ArgValues : GetQuote(s)
    \/ \E s \in ArgValues, o \in OutputsizeArgs : GetDailyData(s, o)
    \/ \E s \in ArgValues, i \in IntervalArgs, o \in OutputsizeArgs : GetIntradayData(s, i, o)
    \/ \E k \in ArgValues : SearchStocks(k)
    \/ \E s \in ArgValues : GetCompanyOverview(s)
    \/ GetMarketStatus
    \/ GetTopGainersLosers
    \/ \E r \in Replies : \E ts \in FirstTimeSeriesKey(r.body) : Attempt(r, ts)
    \/ LoopExit
    \/ \E h \in TestedHandlers : CallerHandles(h)
    \/ CallerReceives
    \/ Proceed

Spec == Init /\ [][Next]_vars

(* ============================== claims ================================= *)
\* The call has ended (the caller may have handled its outcome already).
Ended == pc \in {"done", "handled"}
\* The call passed input validation and went through _make_request.
Executed == Ended /\ exec.status # "none"
LastReply == replies[Len(replies)]
RaisedKind(o, c) == o.status = "raise" /\ o.kind = c

\* C1: if the transport reports a timeout on every attempt of a call, the
\* call raises ConnectionFailure, and exactly max_retries HTTP attempts
\* have been issued when it does.
C1_TimeoutsExhaustRetries ==
    (Executed /\ \A i \in DOMAIN replies : replies[i].kind = "timeout")
        => /\ RaisedKind(outcome, "ConnectionError")
           /\ requests = client.max_retries

\* C2: retry applies only to timeouts: an attempt that ends in a
\* connection error, an HTTP status error, an error-message body, a
\* rate-limit notice body or a malformed body is the last attempt of its
\* call, and the call fails on it.
IsObjectWith(r, key) ==
    r.kind = "body" /\ r.body.kind = "object" /\ key \in DOMAIN r.body.fields
Malformed(r) == r.kind = "bad_json" \/ (r.kind = "body" /\ r.body.kind # "object")
TerminalReply(r) ==
    \/ r.kind \in {"connection_error", "http_error"}
    \/ IsObjectWith(r, "Error Message")
    \/ IsObjectWith(r, "Note")
    \/ Malformed(r)
C2_OnlyTimeoutsRetried ==
    \A i \in DOMAIN replies :
        TerminalReply(replies[i])
            => /\ i = Len(replies)
               /\ Ended
               /\ outcome.status = "raise"

\* C3: a non-timeout connection error on the first attempt makes the call
\* raise ConnectionFailure at once: exactly one HTTP attempt is observed.
C3_ConnectionErrorNotRetried ==
    (Len(replies) >= 1 /\ replies[1].kind = "connection_error")
        => /\ Ended
           /\ RaisedKind(outcome, "ConnectionError")
           /\ requests = 1
C3_Witness ==
    /\ pc = "done"
    /\ client.max_retries = 3
    /\ replies = <<Reply("connection_error")>>
    /\ RaisedKind(outcome, "ConnectionError")
    /\ requests = 1

\* C4: for every configured max_retries, a call that passes input
\* validation issues at least 1 and at most max_retries HTTP attempts
\* before it returns or raises.
C4_AttemptsBetweenOneAndMax ==
    Executed => (requests >= 1 /\ requests <= client.max_retries)

\* C5: classification is ordered: a body with the error-message field
\* raises APIError whatever else it holds; a body with the notice field and
\* no error-message field raises RateLimited; only a body with neither is
\* returned as a payload.
C5_ClassificationOrder ==
    (Executed /\ Len(replies) >= 1 /\ LastReply.kind = "body")
        => LET b == LastReply.body IN
           /\ IsObjectWith(LastReply, "Error Message")
                => exec = Raise("APIError", "Alpha Vantage API Error: ",
                                b.fields["Error Message"])
           /\ (IsObjectWith(LastReply, "Note") /\ ~IsObjectWith(LastReply, "Error Message"))
                => exec = Raise("RateLimitError", "Alpha Vantage Rate Limit: ",
                                b.fields["Note"])
           /\ exec.status = "return"
                => /\ ~IsObjectWith(LastReply, "Error Message")
                   /\ ~IsObjectWith(LastReply, "Note")
                   /\ exec.value = b
C5_Witness ==
    /\ pc = "done"
    /\ Len(replies) >= 1
    /\ IsObjectWith(LastReply, "Error Message")
    /\ IsObjectWith(LastReply, "Note")
    /\ RaisedKind(exec, "APIError")

\* C6: an operation with a required argument, called with that argument
\* empty or not a string, raises InvalidArguments and issues no HTTP
\* request.
RequiredArgOps == {"get_quote", "get_daily_data", "get_intraday_data",
                   "search_stocks", "get_company_overview"}
RequiredArg == IF op = "search_stocks" THEN args.keywords ELSE args.symbol
EmptyOrNotString(v) == v.type # "str" \/ v.chars = << >>
C6_BadArgumentNeverSent ==
    (op \in RequiredArgOps /\ EmptyOrNotString(RequiredArg))
        => /\ Ended
           /\ RaisedKind(outcome, "InvalidArgsError")
           /\ requests = 0
           /\ replies = << >>
C6_Witness ==
    /\ pc = "done"
    /\ op = "get_intraday_data"
    /\ args.symbol = IntVal(123)
    /\ RaisedKind(outcome, "InvalidArgsError")
    /\ requests = 0

\* C7: a body that does not parse as JSON, or parses to a value that is not
\* an object, makes the executor fail with APIError; the value is never
\* returned as a result.
C7_MalformedBodyIsAPIError ==
    (Executed /\ Len(replies) >= 1 /\ Malformed(LastReply))
        => RaisedKind(exec, "APIError")

\* C8: an error raised by the executor reaches the caller unchanged (same
\* kind, same message), and a call ends either with a result or with an
\* error, never with both.
C8_ErrorsPassThrough ==
    Ended =>
        /\ exec.status = "raise" => outcome = exec
        /\ outcome.status \in {"return", "raise"}
        /\ outcome.status = "raise" => outcome.value = NoValue
        /\ outcome.status = "return" => (outcome.kind = "" /\ outcome.value # NoValue)
C8_Witness ==
    /\ pc = "done"
    /\ op = "get_top_gainers_losers"
    /\ RaisedKind(exec, "RateLimitError")
    /\ outcome = exec

\* C9 as stated: RateLimited is the only subtype of APIError, so a handler
\* for APIError does not catch a ConnectionFailure.
C9_ConnectionFailureNotAPIError ==
    (pc = "handled" /\ handler = "APIError" /\ RaisedKind(outcome, "ConnectionError"))
        => caught = "uncaught"
\* C9 amended: APIError has two subtypes, RateLimited and ConnectionFailure,
\* and neither has subtypes of its own: a handler for APIError catches
\* exactly the errors of these three kinds (a ConnectionFailure among
\* them), a handler for either subtype only errors of that very kind.
C9_ConnectionFailureIsAPIError ==
    (pc = "handled" /\ outcome.status = "raise")
        => /\ handler = "APIError"
                => (caught = "caught"
                      <=> outcome.kind \in {"APIError", "RateLimitError", "ConnectionError"})
           /\ handler \in {"RateLimitError", "ConnectionError"}
                => (caught = "caught" <=> outcome.kind = handler)
C9_Witness ==
    /\ pc = "handled"
    /\ handler = "APIError"
    /\ RaisedKind(outcome, "ConnectionError")
    /\ caught = "caught"

\* C10: when the executor returns an envelope that lacks the operation's
\* data, the operation returns an empty mapping (an empty list for
\* search_stocks) and does not raise; no operation raises DataNotFound.
Lacks(env, key) == key \notin DOMAIN env.fields \/ env.fields[key] = "{}"
LacksExpectedData(o, env) ==
    CASE o = "get_quote" -> Lacks(env, "Global Quote")
      [] o = "get_daily_data" -> Lacks(env, "Time Series (Daily)")
      [] o = "get_intraday_data" -> \A k \in TimeSeriesKeys : Lacks(env, k)
      [] o = "search_stocks" -> "bestMatches" \notin DOMAIN env.fields
      [] o = "get_company_overview" -> Cardinality(DOMAIN env.fields) <= 1
      [] o = "get_market_status" -> Lacks(env, "markets")
      [] OTHER -> Lacks(env, "top_gainers") /\ Lacks(env, "top_losers")
SymbolOps == {"get_quote", "get_daily_data", "get_intraday_data",
              "get_company_overview"}
UpperCased(c) == IF c = "a" THEN "A" ELSE c
IsNormalizedFrom(sent, raw) ==
    /\ sent = << >> \/ (sent[1] # " " /\ sent[Len(sent)] # " ")
    /\ \A i \in DOMAIN sent : sent[i] # "a"
    /\ \E lo \in 1..(Len(raw) + 1) :
          /\ \A i \in 1..(lo - 1) : raw[i] = " "
          /\ lo + Len(sent) - 1 <= Len(raw)
          /\ \A i \in (lo + Len(sent))..Len(raw) : raw[i] = " "
          /\ \A i \in DOMAIN sent : sent[i] = UpperCased(raw[lo + i - 1])
C11_SymbolNormalized ==
    (op \in SymbolOps /\ (pc = "exec" \/ requests >= 1))
        => /\ "symbol" \in params.keys
           /\ IsNormalizedFrom(params.symbol, args.symbol.chars)
C11_Witness ==
    /\ op = "get_daily_data"
    /\ requests >= 1
    /\ args.symbol = StrVal(<<" ", "a">>)
    /\ params.symbol = <<"A">>

\* C12: get_intraday_data validates symbol, then interval, then
\* outputsize; an interval outside {1min,5min,15min,30min,60min} or an
\* outputsize outside {compact, full} (case-sensitive) is rejected with
\* InvalidArguments before any HTTP request, and with several invalid
\* arguments the error is the one of the earliest argument in that order.
C12_BadSymbol == EmptyOrNotString(args.symbol)
C12_BadInterval == args.interval \notin {"1min", "5min", "15min", "30min", "60min"}
C12_BadOutputsize == args.outputsize \notin {"compact", "full"}
C12_IntradayValidationOrder ==
    (op = "get_intraday_data" /\ (C12_BadSymbol \/ C12_BadInterval \/ C12_BadOutputsize))
        => /\ Ended
           /\ RaisedKind(outcome, "InvalidArgsError")
           /\ requests = 0
           /\ replies = << >>
           /\ outcome.msg[1] =
                IF C12_BadSymbol THEN "Symbol must be a non-empty string"
                ELSE IF C12_BadInterval THEN "Interval must be one of: "
                ELSE "Output size must be 'compact' or 'full'"
C12_Witness ==
    /\ pc = "done"
    /\ op = "get_intraday_data"
    /\ args.symbol = StrVal(<<"a">>)
    /\ args.interval = "5MIN"
    /\ args.outputsize = "FULL"
    /\ outcome = Raise("InvalidArgsError", "Interval must be one of: ", "")
    /\ requests = 0

\* C13: construction fails at once with InvalidArguments when api_key is
\* missing or empty, and then there is no client on which an operation
\* (hence an HTTP request) could be issued; with a non-empty api_key it
\* succeeds.
MissingOrEmpty(k) == k = NoneVal \/ k = StrVal(<< >>)
TimeoutsUpTo(n) == \A i \in 1..n : replies[i].kind = "timeout"
PlainEnvelope(r) ==
    /\ r.kind = "body"
    /\ r.body.kind = "object"
    /\ "Error Message" \notin DOMAIN r.body.fields
    /\ "Note" \notin DOMAIN r.body.fields
C14_TimeoutThenSuccess ==
    /\ (Len(replies) >= 1 /\ Len(replies) < client.max_retries
          /\ TimeoutsUpTo(Len(replies)))
         => /\ pc = "exec"
            /\ exec = Pending
            /\ outcome = Pending
            /\ requests = Len(replies)
    /\ (Len(replies) >= 1 /\ Len(replies) <= client.max_retries
          /\ TimeoutsUpTo(Len(replies) - 1) /\ PlainEnvelope(LastReply))
         => /\ Ended
            /\ exec = Return(LastReply.body)
            /\ requests = Len(replies)
            /\ outcome \in {Extract(op, LastReply.body, ts) :
                              ts \in FirstTimeSeriesKey(LastReply.body)}
C14_Witness ==
    /\ pc = "done"
    /\ op = "get_market_status"
    /\ client.max_retries = 3
    /\ Len(replies) = 3
    /\ TimeoutsUpTo(2)
    /\ PlainEnvelope(LastReply)
    /\ "markets" \in DOMAIN LastReply.body.fields
    /\ requests = 3
    /\ outcome = Return(LastReply.body)

\* C15: no HTTP request is issued whose symbol or keywords parameter is
\* the empty string: for every input that passes validation the value
\* placed in the request parameters, after trimming, is non-empty.
C15_NoEmptyValueSent ==
    requests >= 1
        => /\ "symbol" \in params.keys => params.symbol # << >>
           /\ "keywords" \in params.keys => params.keywords # << >>

====
